---- MODULE Spec2Model ----
(***************************************************************************)
(* A model of src/trf_parser.py: the VidStab TRF analyser.                 *)
(*                                                                         *)
(* A run is one invocation of main(): "analyse <file>" or                   *)
(* "compare <file1> <file2>".  analyze_trf_file is modelled step by step:   *)
(* existence check and format sniffing, text parse or (binary path) header *)
(* probe, the layout search (one step per (header_size, record_size)       *)
(* candidate), the bulk decode or the default-layout fallback, the         *)
(* diagnostics and the metrics.                                            *)
(*                                                                         *)
(* Floats are modelled by integers (every value used is exactly            *)
(* representable as a 32-bit float) plus the value NaN, whose comparisons  *)
(* are all false, as in IEEE 754.  A file is a descriptor from which each  *)
(* byte of the header and each 32-bit float of the data region can be      *)
(* computed; the data region is read only at 4-byte aligned offsets,       *)
(* because every candidate header size and record size is a multiple of 4. *)
(***************************************************************************)
EXTENDS Integers, Sequences, FiniteSets, TLC

(***************************************************************************)
(* Bounds of the model                                                     *)
(***************************************************************************)
\* trailing bytes after the last record of a binary file: 0..MaxExtra
MaxExtra == 1
\* lines of a text file: 0..MaxLines
MaxLines == 2
\* metrics are kept in fixed point, RmsScale steps per unit
RmsScale == 10
\* transforms of a sequence handed to calculate_stability_metrics: 0..MaxTransforms
MaxTransforms == 2

(***************************************************************************)
(* Program constants                                                       *)
(***************************************************************************)
expected_frames == 16514
data_start == 20
max_records == 100000
min_header_len == 20
num_test_max == 20
max_abs_value == 10000
rms_threshold == 1000
min_frames == 100
max_frames == 1000000
excellent_diff == 10
diag_min_len == 100
diag_window == 1000
diag_median_index == 500
default_record_size == 24

possible_sizes == <<24, 32, 48, 52, 64, 96, 128, 256, 512, 1024, 2048, 2752, 2756, 2760>>
header_sizes == <<16, 20, 24, 32, 64, 128, 256>>

\* b'TRF1'
Magic == <<84, 82, 70, 49>>

(***************************************************************************)
(* Floats                                                                  *)
(***************************************************************************)
NaN == -(2147483647)

IsNaN(v) == v = NaN

Abs(v) == IF IsNaN(v) THEN NaN ELSE IF v < 0 THEN -v ELSE v

\* a > b and a < b on floats: false when either side is NaN
Gt(a, b) == ~IsNaN(a) /\ ~IsNaN(b) /\ a > b

Lt(a, b) == ~IsNaN(a) /\ ~IsNaN(b) /\ a < b

Min(a, b) == IF a < b THEN a ELSE b

Max(a, b) == IF a > b THEN a ELSE b

\* a + b on floats: NaN when either side is NaN
FAdd(a, b) == IF IsNaN(a) \/ IsNaN(b) THEN NaN ELSE a + b

\* x * x on floats
FSquare(x) == IF IsNaN(x) THEN NaN ELSE x * x

None == [none |-> TRUE]

(***************************************************************************)
(* Files.  A binary file is header bytes, then n records of r bytes whose  *)
(* first three floats are the motion fields (the other floats of a record  *)
(* and the header bytes past offset 16 hold the value pad), then `extra`  *)
(* trailing bytes.  One field of one record may be overwritten (badAt).    *)
(***************************************************************************)
Take(s, k) == SubSeq(s, 1, Min(k, Len(s)))

\* the value of field j (0..2) of record i (0-based) of file f
Field(f, i, j) ==
    IF i = f.badAt /\ j = 0 THEN f.badVal
    ELSE CASE f.fill = "zero" -> 0
           [] f.fill = "ramp" -> ((i + 2 * j) % 4) - 1
           [] f.fill = "nan" -> NaN
           [] f.fill = "k1000" -> 1000
           [] OTHER -> 0

\* struct.unpack('<f', data[off:off+4]), off a multiple of 4, 16 <= off, off + 4 <= size
FloatAt(f, off) ==
    IF off < f.h \/ off >= f.h + f.n * f.r THEN f.pad
    ELSE LET i == (off - f.h) \div f.r
             j == ((off - f.h) % f.r) \div 4
         IN  IF j >= 3 THEN f.pad ELSE Field(f, i, j)

\* the first three floats of the record at byte offset off
Triple(f, off) == <<FloatAt(f, off), FloatAt(f, off + 4), FloatAt(f, off + 8)>>

\* the four bytes of the float v are valid UTF-8 (0.0 is 00 00 00 00, 1000.0 is
\* 00 00 7A 44, 10000.0 is 00 40 1C 46; NaN is 00 00 C0 7F, 1.0 is 00 00 80 3F)
TextBytes(v) == v \in {0, 1000, 10000}

\* f.readline() of a file opened as text decodes the file's first block: it
\* raises UnicodeDecodeError when a byte of the header or a float of a record
\* there is not valid UTF-8 (the files' bad field lies in the first block)
Decodable(first4, h, r, n, fill, pad, badAt, badVal) ==
    /\ \A k \in 1..4 : first4[k] < 128
    /\ n > 0 => fill \in {"zero", "k1000"}
    /\ (h > 16 \/ (n > 0 /\ r > 12)) => TextBytes(pad)
    /\ badAt \in 0..(n - 1) => TextBytes(badVal)

BinFile(first4, fc4, h, r, n, extra, fill, pad, badAt, badVal) ==
    [exists |-> TRUE, kind |-> "bin", size |-> h + n * r + extra,
     head |-> Take(first4 \o <<1, 0, 0, 0>> \o fc4 \o <<72, 0, 0, 0>>, h + n * r + extra),
     decodable |-> Decodable(first4, h, r, n, fill, pad, badAt, badVal), lines |-> <<>>,
     h |-> h, r |-> r, n |-> n, fill |-> fill, pad |-> pad,
     badAt |-> badAt, badVal |-> badVal]

\* a text file of the given lines; each line is taken to be 14 bytes long
TextFile(lines) ==
    [exists |-> TRUE, kind |-> "text", size |-> 14 * Len(lines),
     head |-> IF lines = <<>> THEN <<>> ELSE <<lines[1].c>>,
     decodable |-> TRUE, lines |-> lines,
     h |-> 14 * Len(lines), r |-> 4, n |-> 0, fill |-> "zero", pad |-> 0,
     badAt |-> -1, badVal |-> 0]

MissingFile ==
    [exists |-> FALSE, kind |-> "missing", size |-> 0, head |-> <<>>,
     decodable |-> FALSE, lines |-> <<>>,
     h |-> 0, r |-> 4, n |-> 0, fill |-> "zero", pad |-> 0,
     badAt |-> -1, badVal |-> 0]

(***************************************************************************)
(* The input files of the model                                            *)
(***************************************************************************)
Zero4 == <<0, 0, 0, 0>>

\* a first byte that is not ASCII: the file does not decode as text
NonAscii4 == <<255, 82, 70, 49>>

\* first bytes that are text: "1RF1" and "#RF1"
Digit4 == <<49, 82, 70, 49>>

Hash4 == <<35, 82, 70, 49>>

\* the four bytes at offsets 8..11 (little-endian 0, 3, 200)
Fc0 == <<0, 0, 0, 0>>

Fc3 == <<3, 0, 0, 0>>

Fc200 == <<200, 0, 0, 0>>

Extras == {4 * e : e \in 0..MaxExtra} \cup {1}

\* files whose bytes divide evenly under several candidate layouts
AmbiguousFiles ==
    {BinFile(Magic, Fc3, l[1], l[2], n, x, fill, pad, -1, 0) :
        l \in {<<16, 24>>, <<20, 24>>, <<20, 48>>}, n \in {120, 400, 600},
        x \in Extras, fill \in {"zero", "ramp"}, pad \in {0, NaN}}

\* files on which no candidate layout validates
UndetectedFiles ==
    {BinFile(m, fc, 20, 24, n, 0, fill, IF fill = "nan" THEN NaN ELSE 1000, -1, 0) :
        m \in {Magic, Zero4, NonAscii4}, fc \in {Fc0, Fc3, Fc200},
        n \in {3, 200, 600}, fill \in {"nan", "k1000"}}

\* files with one out-of-range field, inside or after the sample window
BadRecordFiles ==
    {BinFile(Magic, Fc3, 20, 24, n, 0, "ramp", pad, b[1], b[2]) :
        n \in {600}, pad \in {0, NaN},
        b \in {<<5, 20000>>, <<5, NaN>>, <<19, 10000>>, <<20, NaN>>,
               <<20, 10000>>, <<20, 20000>>}}
    \cup {BinFile(Magic, Fc3, 20, 24, 16514, 0, "ramp", NaN, b[1], b[2]) :
        b \in {<<5, 20000>>, <<20, NaN>>, <<20, 10000>>}}

\* files whose frame count is close to expected_frames
ExpectedFiles ==
    {BinFile(Magic, Fc3, l[1], l[2], n, 0, ff[1], ff[2], -1, 0) :
        l \in {<<20, 24>>, <<64, 24>>, <<16, 2752>>}, n \in {16505, 16524},
        ff \in {<<"zero", 0>>, <<"ramp", NaN>>}}

\* files with more than max_records records
HugeFiles ==
    {BinFile(Magic, Fc3, 256, 24, max_records + 1, 0, "ramp", NaN, -1, 0),
     BinFile(Zero4, Fc3, 20, 24, max_records + 1, 0, "nan", NaN, -1, 0)}

\* files of records that start like a text file: the zero-filled ones decode
\* as text (one line without white space), the others do not
SniffFiles ==
    {BinFile(m, Fc3, 20, 24, 3, 0, ff[1], ff[2], -1, 0) :
        m \in {Digit4, Hash4}, ff \in {<<"zero", 0>>, <<"nan", NaN>>}}

\* files too short to hold a record
TinyFiles ==
    {BinFile(m, Fc3, h, 4, 0, 0, "zero", 0, -1, 0) :
        m \in {Magic, Zero4}, h \in {0, 3, 4, 15, 16, 19, 20, 43, 44}}

\* the lines of a text file: c is the code of the line's first character
Lines ==
    {[t |-> "comment", c |-> 35, v |-> <<0, 0, 0>>],
     [t |-> "blank", c |-> 10, v |-> <<0, 0, 0>>],
     [t |-> "data", c |-> 48, v |-> <<1, -2, 0>>],
     [t |-> "data", c |-> 49, v |-> <<20000, NaN, 3>>],
     [t |-> "data", c |-> 32, v |-> <<3, 1, -1>>],
     [t |-> "short", c |-> 50, v |-> <<0, 0, 0>>],
     [t |-> "bad", c |-> 51, v |-> <<0, 0, 0>>]}

RECURSIVE SeqsUpTo(_, _)
SeqsUpTo(S, k) ==
    IF k = 0 THEN {<<>>}
    ELSE LET shorter == SeqsUpTo(S, k - 1)
         IN  shorter \cup {Append(s, x) : s \in shorter, x \in S}

TextFiles == {TextFile(ls) : ls \in SeqsUpTo(Lines, MaxLines)}

\* the files given to "compare"
CompareFiles ==
    {BinFile(Magic, fc, 20, 24, 600, 0, "k1000", 1000, -1, 0) : fc \in {Fc0, Fc3, Fc200}}
    \cup {BinFile(Zero4, fc, 20, 24, 3, 0, "nan", NaN, -1, 0) : fc \in {Fc0, Fc3}}
    \cup {BinFile(Magic, fc, 20, 24, 601, 0, "ramp", NaN, -1, 0) : fc \in {Fc0, Fc3}}
    \cup {BinFile(Magic, Fc3, 20, 24, 601, 0, "zero", 0, -1, 0),
          BinFile(Magic, Fc3, 20, 24, 601, 0, "ramp", NaN, 20, NaN),
          TextFile(<<[t |-> "data", c |-> 48, v |-> <<1, -2, 0>>]>>),
          TextFile(<<[t |-> "data", c |-> 49, v |-> <<20000, NaN, 3>>]>>),
          MissingFile}

Files ==
    AmbiguousFiles \cup UndetectedFiles \cup BadRecordFiles \cup ExpectedFiles
    \cup HugeFiles \cup SniffFiles \cup TinyFiles \cup TextFiles \cup CompareFiles

(***************************************************************************)
(* State                                                                   *)
(***************************************************************************)
VARIABLES
    argv,          \* [command, files]: sys.argv of this run
    pc,            \* the position of the run
    cur,           \* which file analyze_trf_file is working on (0: none)
    file_format,   \* per invocation: 'ascii', 'binary', 'unknown'
    header,        \* per invocation: parse_trf_header's result
    hi,            \* index into header_sizes of the search's outer loop
    ri,            \* index into possible_sizes of the search's inner loop
    best_config,   \* per invocation: <<>> (None) or <<header_size, record_size, frame_count>>
    tested,        \* candidates examined so far by the search (history)
    transforms,    \* per invocation: the decoded list, see "The transforms list"
    metrics,       \* per invocation: the value returned, None, or "pending"
    comparison,    \* compare_trf_files' result, None when nothing was compared
    error          \* the exception that ended the run, "" when none

vars == <<argv, pc, cur, file_format, header, hi, ri, best_config, tested,
          transforms, metrics, comparison, error>>

Pending == [pending |-> TRUE]

(***************************************************************************)
(* The transforms list.  The list a binary decode builds holds, at index   *)
(* i, the three floats read from the record at start + i * stride of the   *)
(* file's bytes, which never change: the list is kept as its length and    *)
(* that layout, and Item gives its elements.  The list read from a text    *)
(* file is kept as it is (stride 0).                                       *)
(***************************************************************************)
\* transforms = []
NoTransforms == [items |-> <<>>, start |-> 0, stride |-> 0, count |-> 0]

\* the list of the tuples of a text file
Listed(items) == [items |-> items, start |-> 0, stride |-> 0, count |-> Len(items)]

\* the list of the first count records of stride bytes after start bytes
Decoded(start, stride, count) ==
    [items |-> <<>>, start |-> start, stride |-> stride, count |-> count]

Init ==
    /\ argv \in [command : {"analyse"}, files : {<<f>> : f \in Files}]
           \cup [command : {"compare"},
                 files : {<<f, g>> : f \in CompareFiles, g \in CompareFiles}]
    /\ pc = "main"
    /\ cur = 0
    /\ file_format = <<"", "">>
    /\ header = <<None, None>>
    /\ hi = 1
    /\ ri = 1
    /\ best_config = <<<<>>, <<>>>>
    /\ tested = <<>>
    /\ transforms = <<NoTransforms, NoTransforms>>
    /\ metrics = <<Pending, Pending>>
    /\ comparison = None
    /\ error = ""

File == argv.files[cur]

(***************************************************************************)
(* detect_trf_format                                                       *)
(***************************************************************************)
\* detect_trf_format without the isdigit() test of the first character
detect_trf_format_no_digit(f) ==
    IF Take(f.head, 4) = Magic THEN "binary"
    ELSE IF ~f.decodable THEN "unknown"
    ELSE IF f.size = 0 THEN "unknown"
    ELSE IF f.head[1] = 35 THEN "ascii"
    ELSE "unknown"

detect_trf_format(f) ==
    IF Take(f.head, 4) = Magic THEN "binary"
    ELSE IF ~f.decodable THEN "unknown"                 \* UnicodeDecodeError, swallowed
    ELSE IF f.size = 0 THEN "unknown"                   \* first_line[0]: IndexError, swallowed
    ELSE IF f.head[1] = 35 THEN "ascii"                 \* startswith('#')
    ELSE IF f.head[1] \in 48..57 THEN "ascii"           \* first_line[0].isdigit()
    ELSE "unknown"

(***************************************************************************)
(* parse_trf_header                                                        *)
(***************************************************************************)
\* struct.unpack('<I', data[off:off+4])[0]
U32LE(head, off) ==
    head[off + 1] + 256 * head[off + 2] + 65536 * head[off + 3]
    + 16777216 * head[off + 4]

\* data[:4].decode('ascii', errors='ignore')
DecodeAsciiIgnore(bytes) == SelectSeq(bytes, LAMBDA b : b < 128)

\* parse_trf_header with the length test at the 16 bytes it unpacks
parse_trf_header_min16(f) ==
    IF f.size < 16 THEN None
    ELSE IF DecodeAsciiIgnore(Take(f.head, 4)) # Magic THEN None
    ELSE [magic |-> Magic,
          version |-> U32LE(f.head, 4),
          frame_count |-> U32LE(f.head, 8),
          data_size |-> U32LE(f.head, 12)]

parse_trf_header(f) ==
    IF f.size < min_header_len THEN None
    ELSE IF DecodeAsciiIgnore(Take(f.head, 4)) # Magic THEN None
    ELSE [magic |-> Magic,
          version |-> U32LE(f.head, 4),
          frame_count |-> U32LE(f.head, 8),
          data_size |-> U32LE(f.head, 12)]

(***************************************************************************)
(* parse_ascii_trf                                                         *)
(***************************************************************************)
\* float(parts[k]) raises ValueError on a line of four fields that are not numbers
AsciiRaises(f) == \E k \in 1..Len(f.lines) : f.lines[k].t = "bad"

\* comments, blank lines and lines of fewer than 4 fields are skipped
parse_ascii_trf(f) ==
    LET kept == SelectSeq(f.lines, LAMBDA l : l.t = "data")
    IN  Listed([k \in 1..Len(kept) |-> kept[k].v])

(***************************************************************************)
(* The layout search of analyze_trf_file                                   *)
(***************************************************************************)
FrameCount(f, header_size, record_size) == (f.size - header_size) \div record_size

\* data_size % record_size == 0 and 100 < frame_count < 1000000
Feasible(f, header_size, record_size) ==
    /\ (f.size - header_size) % record_size = 0
    /\ min_frames < FrameCount(f, header_size, record_size)
    /\ FrameCount(f, header_size, record_size) < max_frames

\* any(math.isnan(v) or abs(v) > 10000 for v in values[:3])
SampleInvalid(t) == \E k \in 1..3 : IsNaN(t[k]) \/ Gt(Abs(t[k]), max_abs_value)

\* the sample loop: frame i passes when it lies in the buffer and its fields are sane
TestFrameOk(f, header_size, record_size, i) ==
    /\ header_size + i * record_size + record_size <= f.size
    /\ ~SampleInvalid(Triple(f, header_size + i * record_size))

NumTestFrames(f, header_size, record_size) ==
    Min(num_test_max, FrameCount(f, header_size, record_size))

SampleValid(f, header_size, record_size) ==
    \A i \in 0..(NumTestFrames(f, header_size, record_size) - 1) :
        TestFrameOk(f, header_size, record_size, i)

RECURSIVE SumSqOf(_, _, _, _, _)
\* sum(t[k] ** 2 for t in test_transforms), the frames i..last of the sample
SumSqOf(f, header_size, record_size, k, i) ==
    IF i < 0 THEN 0
    ELSE LET v == Triple(f, header_size + i * record_size)[k]
         IN  v * v + SumSqOf(f, header_size, record_size, k, i - 1)

\* the threshold test with <= in place of <
RmsAtMostThreshold(f, header_size, record_size, k) ==
    LET num == NumTestFrames(f, header_size, record_size)
    IN  SumSqOf(f, header_size, record_size, k, num - 1)
            <= rms_threshold * rms_threshold * num

\* math.sqrt(sum / len) < 1000, decided on the squares: sum < 1000^2 * len
RmsBelowThreshold(f, header_size, record_size, k) ==
    LET num == NumTestFrames(f, header_size, record_size)
    IN  SumSqOf(f, header_size, record_size, k, num - 1)
            < rms_threshold * rms_threshold * num

\* the candidate becomes best_config
Accepts(f, header_size, record_size) ==
    /\ Feasible(f, header_size, record_size)
    /\ SampleValid(f, header_size, record_size)
    /\ NumTestFrames(f, header_size, record_size) > 0
    /\ RmsBelowThreshold(f, header_size, record_size, 1)
    /\ RmsBelowThreshold(f, header_size, record_size, 2)

DiffFrames(frame_count) ==
    IF frame_count >= expected_frames THEN frame_count - expected_frames
    ELSE expected_frames - frame_count

\* the break taken at the distance of the "GOOD MATCH" message (line 249)
ExcellentMatchWithin100(frame_count) == DiffFrames(frame_count) < 100

\* if diff_frames < 10: break
ExcellentMatch(frame_count) == DiffFrames(frame_count) < excellent_diff

\* best_config after the candidate (header_size, record_size) was examined
UpdateBest(best, f, header_size, record_size) ==
    IF Accepts(f, header_size, record_size)
    THEN <<header_size, record_size, FrameCount(f, header_size, record_size)>>
    ELSE best

\* the search without the outer break
OuterBreakNever(best) == FALSE

\* if best_config and abs(best_config[2] - expected_frames) < 10: break
OuterBreak(best) == best # <<>> /\ ExcellentMatch(best[3])

(***************************************************************************)
(* The bulk decode of analyze_trf_file, and analyze_trf_data               *)
(***************************************************************************)
\* how many records the loop "for i in range(limit)" appends before
\* "offset + record_size > len(data)" breaks it: the offsets grow with i, so
\* these are the first records that fit
RecordsRead(f, start, record_size, limit) ==
    IF limit <= 0 \/ f.size < start + record_size THEN 0
    ELSE Min(limit, (f.size - start) \div record_size)

\* a decode that starts one record late
DecodeRecordOffByOne(f, header_size, record_size, i) ==
    Triple(f, header_size + (i + 1) * record_size)

DecodeRecord(f, header_size, record_size, i) ==
    Triple(f, header_size + i * record_size)

DecodeLimit(frame_count) == Min(frame_count, max_records)

\* transforms[i], i from 0
Item(f, ts, i) ==
    IF ts.stride = 0 THEN ts.items[i + 1]
    ELSE DecodeRecord(f, ts.start, ts.stride, i)

\* lines 326-357
ParseFrames(f, best) ==
    Decoded(best[1], best[2], RecordsRead(f, best[1], best[2], DecodeLimit(best[3])))

FallbackFrameCount(f, hdr) ==
    IF hdr # None /\ "frame_count" \in DOMAIN hdr THEN hdr.frame_count
    ELSE (f.size - data_start) \div default_record_size

\* struct.unpack('<6f', ...) cannot fail on 24 bytes: the 12-byte retry is never run
analyze_trf_data(f, hdr) ==
    Decoded(data_start, default_record_size,
            RecordsRead(f, data_start, default_record_size, FallbackFrameCount(f, hdr)))

(***************************************************************************)
(* calculate_stability_metrics.  The values are kept in fixed point,       *)
(* RmsScale steps per unit, rounded up: a value is 0 exactly when the      *)
(* float is 0.                                                             *)
(***************************************************************************)
CeilDiv(a, b) == (a + b - 1) \div b

RECURSIVE CeilSqrtIn(_, _, _)
\* the least s in lo..up with s * s >= x
CeilSqrtIn(x, lo, up) ==
    IF lo >= up THEN lo
    ELSE LET mid == (lo + up) \div 2
         IN  IF mid * mid >= x THEN CeilSqrtIn(x, lo, mid)
             ELSE CeilSqrtIn(x, mid + 1, up)

CeilSqrt(x) == CeilSqrtIn(x, 0, 46340)

\* len(t) >= 3 and all(not math.isnan(v) and abs(v) < 10000 for v in t[:3])
IsValidTransform(t) ==
    Len(t) >= 3 /\ \A k \in 1..3 : ~IsNaN(t[k]) /\ Lt(Abs(t[k]), max_abs_value)

\* the sums over no transform
AccNone ==
    [n |-> 0, nda |-> 0, sq |-> <<0, 0, 0>>, ab |-> <<0, 0, 0>>,
     mn |-> <<0, 0, 0>>, mx |-> <<0, 0, 0>>]

\* what one transform adds to the sums
AccOne(t) ==
    [n |-> 1, nda |-> IF Len(t) > 2 THEN 1 ELSE 0,
     sq |-> <<FSquare(t[1]), FSquare(t[2]), IF Len(t) > 2 THEN FSquare(t[3]) ELSE 0>>,
     ab |-> <<Abs(t[1]), Abs(t[2]), IF Len(t) > 2 THEN Abs(t[3]) ELSE 0>>,
     mn |-> <<t[1], t[2], IF Len(t) > 2 THEN t[3] ELSE 0>>,
     mx |-> <<t[1], t[2], IF Len(t) > 2 THEN t[3] ELSE 0>>]

\* the third components are collected only from the transforms that have one
AccJoin(a, b) ==
    IF a.n = 0 THEN b
    ELSE IF b.n = 0 THEN a
    ELSE [n |-> a.n + b.n, nda |-> a.nda + b.nda,
          sq |-> [k \in 1..3 |-> a.sq[k] + b.sq[k]],
          ab |-> [k \in 1..3 |-> a.ab[k] + b.ab[k]],
          mn |-> [k \in 1..3 |-> IF k = 3 /\ a.nda = 0 THEN b.mn[k]
                                 ELSE IF k = 3 /\ b.nda = 0 THEN a.mn[k]
                                 ELSE Min(a.mn[k], b.mn[k])],
          mx |-> [k \in 1..3 |-> IF k = 3 /\ a.nda = 0 THEN b.mx[k]
                                 ELSE IF k = 3 /\ b.nda = 0 THEN a.mx[k]
                                 ELSE Max(a.mx[k], b.mx[k])]]

\* min(values) and max(values) keep the first value and replace it by a later
\* one that compares below (above) it: a NaN never replaces and is never replaced
AccAppend(a, t) ==
    LET b == AccOne(t)
    IN  [n |-> a.n + 1, nda |-> a.nda + b.nda,
         sq |-> [k \in 1..3 |-> IF k = 3 /\ b.nda = 0 THEN a.sq[k] ELSE FAdd(a.sq[k], b.sq[k])],
         ab |-> [k \in 1..3 |-> IF k = 3 /\ b.nda = 0 THEN a.ab[k] ELSE FAdd(a.ab[k], b.ab[k])],
         mn |-> [k \in 1..3 |-> IF k = 3 /\ b.nda = 0 THEN a.mn[k]
                                ELSE IF k = 3 /\ a.nda = 0 THEN b.mn[k]
                                ELSE IF Lt(b.mn[k], a.mn[k]) THEN b.mn[k] ELSE a.mn[k]],
         mx |-> [k \in 1..3 |-> IF k = 3 /\ b.nda = 0 THEN a.mx[k]
                                ELSE IF k = 3 /\ a.nda = 0 THEN b.mx[k]
                                ELSE IF Gt(b.mx[k], a.mx[k]) THEN b.mx[k] ELSE a.mx[k]]]

RECURSIVE SumsOf(_)
\* the sums, minima and maxima over a listed sequence of transforms, in order
SumsOf(ts) ==
    IF ts = <<>> THEN AccNone
    ELSE IF Len(ts) = 1 THEN AccOne(ts[1])
    ELSE AccAppend(SumsOf(SubSeq(ts, 1, Len(ts) - 1)), ts[Len(ts)])

RECURSIVE Accumulate(_, _, _, _)
\* the sums, minima and maxima over the valid transforms among
\* transforms[lo..up], lo <= up
Accumulate(f, ts, lo, up) ==
    IF lo = up
    THEN (IF IsValidTransform(Item(f, ts, lo)) THEN AccOne(Item(f, ts, lo)) ELSE AccNone)
    ELSE LET mid == (lo + up) \div 2
         IN  AccJoin(Accumulate(f, ts, lo, mid), Accumulate(f, ts, mid + 1, up))

\* valid_transforms, as the sums its metrics are computed from
ValidTransforms(f, ts) ==
    IF ts.count = 0 THEN AccNone ELSE Accumulate(f, ts, 0, ts.count - 1)

\* math.sqrt(sum(x * x) / len(values))
Rms(sumsq, n) ==
    IF IsNaN(sumsq) THEN NaN
    ELSE CeilSqrt((sumsq \div n) * RmsScale * RmsScale
             + CeilDiv((sumsq % n) * RmsScale * RmsScale, n))

\* sum(abs(x)) / len(values)
MeanAbs(sumabs, n) == IF IsNaN(sumabs) THEN NaN ELSE CeilDiv(sumabs * RmsScale, n)

\* a: the sums over the list the function is given
calculate_stability_metrics(a) ==
    IF a.n = 0 THEN [empty |-> TRUE]
    ELSE LET base == [frame_count |-> a.n,
                      dx_rms |-> Rms(a.sq[1], a.n),
                      dy_rms |-> Rms(a.sq[2], a.n),
                      dx_mean_abs |-> MeanAbs(a.ab[1], a.n),
                      dy_mean_abs |-> MeanAbs(a.ab[2], a.n),
                      dx_range |-> <<a.mn[1], a.mx[1]>>,
                      dy_range |-> <<a.mn[2], a.mx[2]>>]
         IN  IF a.nda > 0
             THEN [frame_count |-> base.frame_count,
                   dx_rms |-> base.dx_rms, dy_rms |-> base.dy_rms,
                   dx_mean_abs |-> base.dx_mean_abs, dy_mean_abs |-> base.dy_mean_abs,
                   dx_range |-> base.dx_range, dy_range |-> base.dy_range,
                   da_rms |-> Rms(a.sq[3], a.nda),
                   da_mean_abs |-> MeanAbs(a.ab[3], a.nda),
                   da_range |-> <<a.mn[3], a.mx[3]>>,
                   instability_index |->
                       FAdd(FAdd(base.dx_rms, base.dy_rms), Rms(a.sq[3], a.nda))]
             ELSE [frame_count |-> base.frame_count,
                   dx_rms |-> base.dx_rms, dy_rms |-> base.dy_rms,
                   dx_mean_abs |-> base.dx_mean_abs, dy_mean_abs |-> base.dy_mean_abs,
                   dx_range |-> base.dx_range, dy_range |-> base.dy_range,
                   instability_index |-> FAdd(base.dx_rms, base.dy_rms)]

(***************************************************************************)
(* The report of analyze_trf_file (lines 376-430)                          *)
(***************************************************************************)
\* sorted(dx_vals)[500] over transforms[:1000] raises IndexError
DiagnosticsRaises(ts) ==
    ts.count > diag_min_len /\ Min(ts.count, diag_window) <= diag_median_index

\* metrics[key] = val
SetKey(m, key, val) == [k \in DOMAIN m \cup {key} |-> IF k = key THEN val ELSE m[k]]

\* the value analyze_trf_file returns for a non-empty transforms
ReportMetrics(f, ts) ==
    LET valid_transforms == ValidTransforms(f, ts)
    IN  IF valid_transforms.n = 0 THEN None
        ELSE SetKey(SetKey(calculate_stability_metrics(valid_transforms),
                           "frame_count", ts.count),
                    "valid_frame_count", valid_transforms.n)

(***************************************************************************)
(* compare_trf_files (lines 444-465)                                       *)
(***************************************************************************)
\* "if metrics1 and metrics2": None and an empty dict are falsy
Truthy(m) == m # None /\ m # Pending /\ m # [empty |-> TRUE]

\* max(a, b) == 0 makes the division of line 464 raise ZeroDivisionError
CompareRaises(m1, m2) == Max(m1.instability_index, m2.instability_index) = 0

CompareResult(m1, m2) ==
    LET i1 == m1.instability_index
        i2 == m2.instability_index
        better == IF i1 < i2 THEN 1 ELSE 2
        diff == IF i1 < i2 THEN i2 - i1 ELSE i1 - i2
    IN  [better |-> better, diff |-> diff,
         improvement_pct |-> (diff * 100 * RmsScale) \div Max(i1, i2)]

(***************************************************************************)
(* Actions                                                                 *)
(***************************************************************************)
\* main(): dispatch on the command
Main ==
    /\ pc = "main"
    /\ cur' = 1
    /\ pc' = "analyze"
    /\ UNCHANGED <<argv, file_format, header, hi, ri, best_config, tested,
                   transforms, metrics, comparison, error>>

\* analyze_trf_file, lines 184-196: a missing file returns None
AnalyzeStart ==
    /\ pc = "analyze"
    /\ IF ~File.exists
       THEN /\ metrics' = [metrics EXCEPT ![cur] = None]
            /\ pc' = "returned"
            /\ UNCHANGED file_format
       ELSE /\ file_format' = [file_format EXCEPT ![cur] = detect_trf_format(File)]
            /\ pc' = IF detect_trf_format(File) = "ascii" THEN "ascii" ELSE "binary"
            /\ UNCHANGED metrics
    /\ UNCHANGED <<argv, cur, header, hi, ri, best_config, tested, transforms,
                   comparison, error>>

\* line 199: transforms = parse_ascii_trf(filename)
ParseAscii ==
    /\ pc = "ascii"
    /\ IF AsciiRaises(File)
       THEN /\ error' = "ValueError"
            /\ pc' = "crashed"
            /\ UNCHANGED transforms
       ELSE /\ transforms' = [transforms EXCEPT ![cur] = parse_ascii_trf(File)]
            /\ pc' = "parsed"
            /\ UNCHANGED error
    /\ UNCHANGED <<argv, cur, file_format, header, hi, ri, best_config, tested,
                   metrics, comparison>>

\* lines 201-236: read the file, parse the header, start the search
ParseHeader ==
    /\ pc = "binary"
    /\ header' = [header EXCEPT ![cur] = parse_trf_header(File)]
    /\ hi' = 1
    /\ ri' = 1
    /\ tested' = <<>>
    /\ pc' = "search"
    /\ UNCHANGED <<argv, cur, file_format, best_config, transforms, metrics,
                   comparison, error>>

\* lines 238-303: one candidate (header_sizes[hi], possible_sizes[ri]) of the search
TestConfig ==
    /\ pc = "search"
    /\ LET header_size == header_sizes[hi]
           record_size == possible_sizes[ri]
           best == UpdateBest(best_config[cur], File, header_size, record_size)
           inner_break == /\ Accepts(File, header_size, record_size)
                          /\ ExcellentMatch(FrameCount(File, header_size, record_size))
           inner_done == inner_break \/ ri = Len(possible_sizes)
           outer_done == inner_done /\ (OuterBreak(best) \/ hi = Len(header_sizes))
       IN  /\ best_config' = [best_config EXCEPT ![cur] = best]
           /\ tested' = Append(tested, <<header_size, record_size>>)
           /\ ri' = IF inner_done THEN 1 ELSE ri + 1
           /\ hi' = IF inner_done /\ ~outer_done THEN hi + 1 ELSE hi
           /\ pc' = IF outer_done THEN "searched" ELSE "search"
    /\ UNCHANGED <<argv, cur, file_format, header, transforms, metrics,
                   comparison, error>>

\* lines 312-363: decode under the detected layout
ParseDetected ==
    /\ pc = "searched"
    /\ best_config[cur] # <<>>
    /\ transforms' = [transforms EXCEPT ![cur] = ParseFrames(File, best_config[cur])]
    /\ pc' = "parsed"
    /\ UNCHANGED <<argv, cur, file_format, header, hi, ri, best_config, tested,
                   metrics, comparison, error>>

\* lines 364-374: no layout was detected, decode under the default layout
Fallback ==
    /\ pc = "searched"
    /\ best_config[cur] = <<>>
    /\ transforms' = [transforms EXCEPT ![cur] = analyze_trf_data(File, header[cur])]
    /\ pc' = "parsed"
    /\ UNCHANGED <<argv, cur, file_format, header, hi, ri, best_config, tested,
                   metrics, comparison, error>>

\* lines 376-389 and 428-430: nothing parsed returns None; the value distribution
Diagnostics ==
    /\ pc = "parsed"
    /\ IF transforms[cur].count = 0
       THEN /\ metrics' = [metrics EXCEPT ![cur] = None]
            /\ pc' = "returned"
            /\ UNCHANGED error
       ELSE IF DiagnosticsRaises(transforms[cur])
       THEN /\ error' = "IndexError"
            /\ pc' = "crashed"
            /\ UNCHANGED metrics
       ELSE /\ pc' = "report"
            /\ UNCHANGED <<metrics, error>>
    /\ UNCHANGED <<argv, cur, file_format, header, hi, ri, best_config, tested,
                   transforms, comparison>>

\* lines 391-427: filter the valid transforms, compute and return the metrics
Report ==
    /\ pc = "report"
    /\ metrics' = [metrics EXCEPT ![cur] = ReportMetrics(File, transforms[cur])]
    /\ pc' = "returned"
    /\ UNCHANGED <<argv, cur, file_format, header, hi, ri, best_config, tested,
                   transforms, comparison, error>>

\* main() line 489: "analyse" ends when analyze_trf_file returns
AnalyseDone ==
    /\ pc = "returned"
    /\ argv.command = "analyse"
    /\ pc' = "done"
    /\ UNCHANGED <<argv, cur, file_format, header, hi, ri, best_config, tested,
                   transforms, metrics, comparison, error>>

\* compare_trf_files line 442: metrics2 = analyze_trf_file(file2)
CompareSecond ==
    /\ pc = "returned"
    /\ argv.command = "compare"
    /\ cur = 1
    /\ cur' = 2
    /\ pc' = "analyze"
    /\ UNCHANGED <<argv, file_format, header, hi, ri, best_config, tested,
                   transforms, metrics, comparison, error>>

\* compare_trf_files lines 444-465
Compare ==
    /\ pc = "returned"
    /\ argv.command = "compare"
    /\ cur = 2
    /\ IF ~(Truthy(metrics[1]) /\ Truthy(metrics[2]))
       THEN /\ pc' = "done"
            /\ UNCHANGED <<comparison, error>>
       ELSE IF CompareRaises(metrics[1], metrics[2])
       THEN /\ error' = "ZeroDivisionError"
            /\ pc' = "crashed"
            /\ UNCHANGED comparison
       ELSE /\ comparison' = CompareResult(metrics[1], metrics[2])
            /\ pc' = "done"
            /\ UNCHANGED error
    /\ UNCHANGED <<argv, cur, file_format, header, hi, ri, best_config, tested,
                   transforms, metrics>>

Next ==
    \/ Main
    \/ AnalyzeStart
    \/ ParseAscii
    \/ ParseHeader
    \/ TestConfig
    \/ ParseDetected
    \/ Fallback
    \/ Diagnostics
    \/ Report
    \/ AnalyseDone
    \/ CompareSecond
    \/ Compare

Spec == Init /\ [][Next]_vars

(***************************************************************************)
(* calculate_stability_metrics on its own: the function applied to a       *)
(* sequence of transforms of two or three components.  A NaN component is  *)
(* what the unfiltered call of src/trf_binary_parser.py (line 205) passes  *)
(* for a record whose floats are NaN.                                      *)
(***************************************************************************)
MetricValues == {-2, 0, NaN}

MetricTransforms ==
    {<<x, y>> : x \in MetricValues, y \in MetricValues}
    \cup {<<x, y, a>> : x \in MetricValues, y \in MetricValues, a \in MetricValues}

InitMetrics ==
    /\ argv = [command |-> "summarize", files |-> <<>>]
    /\ pc = "summarize"
    /\ cur = 0
    /\ file_format = <<"", "">>
    /\ header = <<None, None>>
    /\ hi = 1
    /\ ri = 1
    /\ best_config = <<<<>>, <<>>>>
    /\ tested = <<>>
    /\ transforms \in {<<Listed(ts), NoTransforms>> : ts \in SeqsUpTo(MetricTransforms, MaxTransforms)}
    /\ metrics = <<Pending, Pending>>
    /\ comparison = None
    /\ error = ""

\* metrics = calculate_stability_metrics(transforms)
Summarize ==
    /\ pc = "summarize"
    /\ metrics' = [metrics EXCEPT ![1] = calculate_stability_metrics(SumsOf(transforms[1].items))]
    /\ pc' = "done"
    /\ UNCHANGED <<argv, cur, file_format, header, hi, ri, best_config, tested,
                   transforms, comparison, error>>

SpecMetrics == InitMetrics /\ [][Summarize]_vars

(***************************************************************************)
(* Properties                                                              *)
(***************************************************************************)
InSeq(x, s) == \E k \in 1..Len(s) : s[k] = x

\* the candidates in enumeration order: header sizes outer, record sizes inner
Candidates ==
    {<<header_sizes[a], possible_sizes[b]>> : a \in 1..Len(header_sizes),
                                               b \in 1..Len(possible_sizes)}

IndexOf(x, s) == CHOOSE k \in 1..Len(s) : s[k] = x

\* candidate c is enumerated before candidate d
Before(c, d) ==
    \/ IndexOf(c[1], header_sizes) < IndexOf(d[1], header_sizes)
    \/ /\ c[1] = d[1]
       /\ IndexOf(c[2], possible_sizes) < IndexOf(d[2], possible_sizes)

\* the search of the current invocation has ended
Searched == pc = "searched"

\* f was written as f.n records of f.r bytes after f.h header bytes, the pair
\* (f.h, f.r) is one of the candidates, and nothing follows the last record
TrueLayoutEnumerated(f) ==
    /\ f.kind = "bin"
    /\ f.n > 0
    /\ f.size = f.h + f.n * f.r
    /\ <<f.h, f.r>> \in Candidates

\* every record of f holds no NaN and no magnitude above 10,000
RecordsPlausible(f) ==
    \A i \in 0..(f.n - 1) : ~SampleInvalid(Triple(f, f.h + i * f.r))

\* C1 as stated: for every buffer whose true layout is one of the enumerated
\* candidates and whose records are all plausible, the search selects exactly
\* that (header_size, record_size) pair.
C1_TrueLayoutSelected ==
    (Searched /\ TrueLayoutEnumerated(File) /\ RecordsPlausible(File))
        => /\ best_config[cur] # <<>>
           /\ <<best_config[cur][1], best_config[cur][2]>> = <<File.h, File.r>>

\* the true layout of f is an excellent match that the search reaches first
ExcellentTrueLayout(f) ==
    /\ TrueLayoutEnumerated(f)
    /\ RecordsPlausible(f)
    /\ ExcellentMatch(f.n)
    /\ RmsBelowThreshold(f, f.h, f.r, 1)
    /\ RmsBelowThreshold(f, f.h, f.r, 2)
    /\ \A c \in Candidates :
           Before(c, <<f.h, f.r>>)
               => ~(Accepts(f, c[1], c[2]) /\ ExcellentMatch(FrameCount(f, c[1], c[2])))

\* C1 (amended): when the true layout is one of the enumerated candidates, all
\* records are plausible, the sample RMS of dx and dy is below 1,000, the frame
\* count is within 10 of the expected 16,514 and no candidate enumerated earlier
\* is accepted with such a frame count, the search selects exactly that pair
\* with that frame count.
C1_ExcellentTrueLayoutSelected ==
    (Searched /\ ExcellentTrueLayout(File))
        => best_config[cur] = <<File.h, File.r, File.n>>

\* C1 witness: such a search has ended on a buffer that another candidate
\* pair divides evenly as well
C1_Witness ==
    /\ Searched
    /\ ExcellentTrueLayout(File)
    /\ \E c \in Candidates : c # <<File.h, File.r>> /\ Feasible(File, c[1], c[2])
    /\ best_config[cur] = <<File.h, File.r, File.n>>

\* C2 as stated: the layout chosen by the search is, among all candidates that
\* passed feasibility and sample validation, one whose frame count is closest
\* to the expected frame count.
C2_ChosenIsClosest ==
    (Searched /\ best_config[cur] # <<>>)
        => \A c \in Candidates :
               (InSeq(c, tested) /\ Accepts(File, c[1], c[2]))
                   => DiffFrames(best_config[cur][3])
                          <= DiffFrames(FrameCount(File, c[1], c[2]))

\* the bulk decode of the detected layout has just ended
DecodedDetected == pc = "parsed" /\ file_format[cur] # "ascii" /\ best_config[cur] # <<>>

\* C3: whenever the search selects a layout, the decoded sequence has length
\* min(selected frame_count, 100000), its i-th element is the first three
\* floats of the record at offset header_size + i * record_size, every decoded
\* record lies inside the buffer and the decode raised nothing.
C3_BulkDecode ==
    DecodedDetected =>
        LET header_size == best_config[cur][1]
            record_size == best_config[cur][2]
            frame_count == best_config[cur][3]
            ts == transforms[cur]
        IN  /\ ts.count = Min(frame_count, max_records)
            /\ \A i \in 0..(ts.count - 1) :
                   /\ Item(File, ts, i) = <<FloatAt(File, header_size + i * record_size),
                                    FloatAt(File, header_size + i * record_size + 4),
                                    FloatAt(File, header_size + i * record_size + 8)>>
                   /\ header_size + i * record_size + record_size <= File.size
            /\ error = ""

\* C3 witness: a decode of a layout of more than 100,000 frames stopped at the cap
C3_Witness ==
    /\ DecodedDetected
    /\ best_config[cur][3] > max_records
    /\ transforms[cur].count = max_records

\* the current invocation took the binary path
BinaryPath == cur > 0 /\ file_format[cur] \in {"binary", "unknown"}

\* the current invocation has decoded its file under the default layout
DecodedDefault ==
    /\ BinaryPath
    /\ pc \in {"parsed", "report", "returned", "crashed"}
    /\ best_config[cur] = <<>>

\* C4 as stated: on the binary path, whichever decode branch runs, the number of
\* decoded transforms never exceeds max_records = 100,000.
C4_DecodeCapped ==
    \A k \in 1..2 :
        file_format[k] \in {"binary", "unknown"} => transforms[k].count <= max_records

\* a field the sanitization replaces: NaN or of magnitude above 10,000
OutOfBounds(v) == IsNaN(v) \/ Gt(Abs(v), max_abs_value)

\* the sanitization of a transform: out-of-bounds fields become 0.0
Sanitized(t) == [k \in 1..Len(t) |-> IF OutOfBounds(t[k]) THEN 0 ELSE t[k]]

\* C5 as stated: in the sequence returned by the raw binary decode every field
\* is within bounds (not NaN, magnitude at most 10,000), so sanitizing it again
\* changes nothing.
C5_DecodeSanitized ==
    (BinaryPath /\ pc = "parsed")
        => \A i \in 0..(transforms[cur].count - 1) :
               LET t == Item(File, transforms[cur], i)
               IN  /\ \A k \in 1..3 : ~OutOfBounds(t[k])
                   /\ Sanitized(t) = t

\* two files that are identical except for the 4 bytes at offsets 8..11
DifferOnlyInFrameCount(f, g) ==
    /\ f.exists /\ g.exists
    /\ f.kind = "bin" /\ g.kind = "bin"
    /\ [f EXCEPT !.head = <<>>] = [g EXCEPT !.head = <<>>]
    /\ Len(f.head) = Len(g.head)
    /\ \A k \in 1..Len(f.head) : k \notin 9..12 => f.head[k] = g.head[k]

\* both analyses of a comparison have returned
BothReturned == argv.command = "compare" /\ cur = 2 /\ pc \in {"returned", "done"}

\* C6 as stated: two buffers that differ only in the header's frame_count field
\* give the same transform sequence and the same metrics.
C6_FrameCountAdvisory ==
    (BothReturned /\ DifferOnlyInFrameCount(argv.files[1], argv.files[2]))
        => /\ transforms[1].count = transforms[2].count
           /\ \A i \in 0..(transforms[1].count - 1) :
                  Item(argv.files[1], transforms[1], i)
                      = Item(argv.files[2], transforms[2], i)
           /\ metrics[1] = metrics[2]

\* C7 as stated: for every existing file on the binary path analyze_trf_file
\* runs to completion: no step after decoding (diagnostics, validity filter,
\* metrics) raises an error.
C7_NoRaiseAfterDecoding ==
    BinaryPath => ~(pc = "crashed" /\ error = "IndexError")

\* the search examined every candidate and accepted none
SearchExhausted ==
    /\ Len(tested) = Len(header_sizes) * Len(possible_sizes)
    /\ \A c \in Candidates : InSeq(c, tested) /\ ~Accepts(File, c[1], c[2])

\* C8 as stated: the default layout is used if and only if the search finished
\* the whole enumeration without accepting a candidate; the i-th transform is
\* then the first three floats of the record at offset 20 + 24 * i, and the
\* outcome is a result (metrics or absent), never an abort.
C8_DefaultLayoutFallback ==
    (BinaryPath /\ pc \in {"parsed", "report", "returned", "crashed"})
        => /\ (best_config[cur] = <<>>) <=> SearchExhausted
           /\ DecodedDefault =>
                  /\ \A i \in 0..(transforms[cur].count - 1) :
                         Item(File, transforms[cur], i) =
                             <<FloatAt(File, 20 + 24 * i), FloatAt(File, 24 + 24 * i),
                               FloatAt(File, 28 + 24 * i)>>
                  /\ pc # "crashed"

\* the header of the current invocation has been parsed
HeaderParsed == BinaryPath /\ pc \in {"search", "searched"}

\* the first 4 bytes of f are "TRF1"
HasMagic(f) == Len(f.head) >= 4 /\ SubSeq(f.head, 1, 4) = <<84, 82, 70, 49>>

\* the little-endian unsigned 32-bit value of the bytes at offsets off..off+3
LittleEndianAt(f, off) ==
    f.head[off + 1] + 256 * (f.head[off + 2] + 256 * (f.head[off + 3] + 256 * f.head[off + 4]))

HeaderFieldsDecoded ==
    /\ header[cur].version = LittleEndianAt(File, 4)
    /\ header[cur].frame_count = LittleEndianAt(File, 8)
    /\ header[cur].data_size = LittleEndianAt(File, 12)

\* C9 as stated: the header is absent exactly when the buffer is shorter than
\* 16 bytes or its first 4 bytes are not the magic; otherwise its fields are the
\* little-endian values at offsets 4, 8 and 12.
C9_HeaderAbsentBelow16 ==
    HeaderParsed =>
        /\ (header[cur] = None) <=> (File.size < 16 \/ ~HasMagic(File))
        /\ header[cur] # None => HeaderFieldsDecoded

\* C9 (amended): the header is absent exactly when the buffer is shorter than
\* 20 bytes or its first 4 bytes are not the magic "TRF1"; for every other
\* buffer its version, frame_count and data_size are the little-endian unsigned
\* 32-bit values at byte offsets 4, 8 and 12.
C9_HeaderAbsentBelow20 ==
    HeaderParsed =>
        /\ (header[cur] = None) <=> (File.size < 20 \/ ~HasMagic(File))
        /\ header[cur] # None => HeaderFieldsDecoded

\* C9 witness: a buffer of exactly 20 bytes with the magic has its header parsed
C9_Witness ==
    /\ HeaderParsed
    /\ File.size = 20
    /\ header[cur] # None
    /\ header[cur].frame_count = 3

\* the format of the current invocation has been detected
Detected == cur > 0 /\ pc \in {"ascii", "binary"}

\* how the first line of f starts, from the text of the file
FirstLine(f) ==
    IF ~f.decodable THEN "undecodable"
    ELSE IF f.size = 0 THEN "empty"
    ELSE IF f.kind = "text"
         THEN (IF f.lines[1].t = "blank" THEN "empty"
               ELSE IF f.lines[1].t = "comment" THEN "comment"
               ELSE IF f.lines[1].c \in 48..57 THEN "digit"
               ELSE "other")
    ELSE IF f.head[1] = 35 THEN "comment"
    ELSE IF f.head[1] \in 48..57 THEN "digit"
    ELSE "other"

\* unknown is routed to the same path as binary
RoutedByFormat ==
    pc = IF file_format[cur] = "ascii" THEN "ascii" ELSE "binary"

\* C10 as stated: binary when the first 4 bytes are the magic; otherwise text
\* when the first line is empty, starts with '#' or starts with a digit;
\* otherwise unknown, which is routed like binary.
C10_EmptyFirstLineIsText ==
    Detected =>
        /\ file_format[cur] =
               IF HasMagic(File) THEN "binary"
               ELSE IF FirstLine(File) \in {"empty", "comment", "digit"} THEN "ascii"
               ELSE "unknown"
        /\ RoutedByFormat

\* C10 (amended): binary when the first 4 bytes are the magic; otherwise text
\* when the first line starts with '#' or with a digit; otherwise (an empty
\* first line and any decode failure included) unknown, and the caller routes
\* unknown to the same binary path as binary.
C10_DetectFormat ==
    Detected =>
        /\ file_format[cur] =
               IF HasMagic(File) THEN "binary"
               ELSE IF FirstLine(File) \in {"comment", "digit"} THEN "ascii"
               ELSE "unknown"
        /\ RoutedByFormat

\* C10 witness: a text file whose first line is empty was classified unknown
\* and routed to the binary path
C10_Witness ==
    /\ Detected
    /\ File.kind = "text"
    /\ File.size > 0
    /\ FirstLine(File) = "empty"
    /\ file_format[cur] = "unknown"
    /\ pc = "binary"

\* the current invocation returned metrics
MetricsReturned ==
    /\ cur > 0
    /\ pc \in {"returned", "done"}
    /\ metrics[cur] # None
    /\ metrics[cur] # Pending

\* the decoded triples that pass the sample validation of the search
PassSampleCheck(f, ts) ==
    {i \in 0..(ts.count - 1) : ~SampleInvalid(Item(f, ts, i))}

\* C11 as stated: a decoded triple is counted in valid_frame_count if and only
\* if it passes the sample validation check of the search (no field NaN, no
\* field of magnitude above 10,000); frame_count counts every decoded record.
C11_FilterMatchesSampleCheck ==
    MetricsReturned =>
        /\ metrics[cur].valid_frame_count
               = Cardinality(PassSampleCheck(File, transforms[cur]))
        /\ metrics[cur].frame_count = transforms[cur].count

\* compare_trf_files has ended, by returning or by an exception
CompareEnded == argv.command = "compare" /\ cur = 2 /\ pc \in {"done", "crashed"}

\* both analyses returned metrics
BothPresent == Truthy(metrics[1]) /\ Truthy(metrics[2])

\* C12 as stated: for every pair of present metrics compare_trf_files completes
\* and reports the file with the lower instability_index as the winner, the
\* absolute difference of the indices, and 100 * difference / max(indices) as
\* the relative improvement; when either metrics result is absent it reports
\* no comparison result.
C12_CompareReports ==
    CompareEnded =>
        IF BothPresent
        THEN LET a == metrics[1].instability_index
                 b == metrics[2].instability_index
             IN  /\ pc = "done"
                 /\ comparison # None
                 /\ a < b => comparison.better = 1
                 /\ b < a => comparison.better = 2
                 /\ comparison.diff = Abs(a - b)
                 /\ comparison.improvement_pct * Max(a, b) <= 100 * RmsScale * Abs(a - b)
                 /\ 100 * RmsScale * Abs(a - b) < (comparison.improvement_pct + 1) * Max(a, b)
        ELSE comparison = None

\* calculate_stability_metrics has returned m for the sequence ts
Summarized == pc = "done" /\ argv.command = "summarize"

\* some transform of ts carries a third component
HasThird(ts) == \E i \in 1..Len(ts) : Len(ts[i]) > 2

\* float comparison a >= 0 and float equality: false on NaN
NonNegative(v) == ~IsNaN(v) /\ v >= 0

FloatEq(a, b) == ~IsNaN(a) /\ ~IsNaN(b) /\ a = b

\* C13 as stated: an empty result for an empty sequence; for a non-empty one
\* the instability_index is non-negative and equals dx_rms + dy_rms, plus
\* da_rms exactly when some transform carries a third component, and the da_*
\* fields are present in exactly that case.
C13_InstabilityIndex ==
    Summarized =>
        LET ts == transforms[1].items
            m == metrics[1]
        IN  IF ts = <<>> THEN m = [empty |-> TRUE]
            ELSE /\ "instability_index" \in DOMAIN m
                 /\ NonNegative(m.instability_index)
                 /\ {"da_rms", "da_mean_abs", "da_range"} \subseteq DOMAIN m <=> HasThird(ts)
                 /\ {"da_rms", "da_mean_abs", "da_range"} \cap DOMAIN m = {} <=> ~HasThird(ts)
                 /\ FloatEq(m.instability_index,
                            IF HasThird(ts) THEN FAdd(FAdd(m.dx_rms, m.dy_rms), m.da_rms)
                            ELSE FAdd(m.dx_rms, m.dy_rms))

\* C14 as stated: in a comparison file 1 is analysed first and file 2 is
\* analysed in every run, whatever file 1 is: when compare_trf_files has ended
\* (by returning or by an exception) analyze_trf_file was invoked on file 2,
\* the analysis of file 2 starts only after that of file 1 returned, and a
\* comparison result exists only after both analyses returned present metrics.
C14_SecondFileAlwaysAnalysed ==
    argv.command = "compare" =>
        /\ pc \in {"done", "crashed"} => cur = 2
        /\ cur = 2 => metrics[1] # Pending
        /\ cur = 1 => metrics[2] = Pending /\ file_format[2] = ""
        /\ comparison # None => BothPresent /\ pc = "done"

RECURSIVE DxSquares(_, _, _, _)
\* the sum of dx * dx over the first num records of the layout
DxSquares(f, header_size, record_size, num) ==
    IF num = 0 THEN 0
    ELSE LET dx == FloatAt(f, header_size + (num - 1) * record_size)
         IN  dx * dx + DxSquares(f, header_size, record_size, num - 1)

\* what C15 states of a layout (header_size, record_size, frame_count) of file f
SelectedLayoutSane(f, header_size, record_size, frame_count) ==
    LET num == IF frame_count < 20 THEN frame_count ELSE 20
    IN  /\ (f.size - header_size) % record_size = 0
        /\ record_size % 4 = 0
        /\ frame_count * record_size = f.size - header_size
        /\ 100 < frame_count /\ frame_count < 1000000
        /\ \A i \in 0..(num - 1) : \A j \in 0..2 :
               LET v == FloatAt(f, header_size + i * record_size + 4 * j)
               IN  ~IsNaN(v) /\ -10000 <= v /\ v <= 10000
        /\ DxSquares(f, header_size, record_size, num) < 1000 * 1000 * num

\* C15: in every state a selected layout divides the data region evenly, has a
\* record size that is a multiple of 4 and a frame count strictly between 100
\* and 1,000,000, holds no NaN and no magnitude above 10,000 in the first three
\* floats of its first min(20, frame_count) records, and has a sample RMS of dx
\* below 1,000.
C15_SelectedLayoutSane ==
    \A k \in 1..Len(argv.files) :
        best_config[k] # <<>> =>
            SelectedLayoutSane(argv.files[k], best_config[k][1], best_config[k][2],
                               best_config[k][3])

\* C15 witness: the search ended with a layout that was not the first candidate
\* it accepted
C15_Witness ==
    /\ Searched
    /\ best_config[cur] # <<>>
    /\ \E c \in Candidates :
           /\ InSeq(c, tested)
           /\ Accepts(File, c[1], c[2])
           /\ c # <<best_config[cur][1], best_config[cur][2]>>

\* the i-th candidate of the enumeration: header sizes outer, record sizes inner
Enumerated(i) ==
    <<header_sizes[((i - 1) \div Len(possible_sizes)) + 1],
      possible_sizes[((i - 1) % Len(possible_sizes)) + 1]>>

\* the lists are in ascending order
Ascending(s) == \A i \in 1..(Len(s) - 1) : s[i] < s[i + 1]

\* candidate c is accepted on f with a frame count less than 10 away from 16514
AcceptedVeryClose(f, c) ==
    /\ (f.size - c[1]) \div c[2] - 16514 < 10
    /\ 16514 - (f.size - c[1]) \div c[2] < 10
    /\ Accepts(f, c[1], c[2])

\* the search of the current invocation is running or has ended
SearchStarted ==
    /\ BinaryPath
    /\ pc \in {"search", "searched", "parsed", "report", "returned", "crashed", "done"}

\* C16: the candidates are examined in enumeration order (header sizes outer,
\* record sizes inner, both ascending); the search stops at the first accepted
\* candidate whose frame count is less than 10 away from the expected one, that
\* candidate is the selected layout, nothing after it is examined, and the
\* search stops before the end of the enumeration for no other reason.
C16_StopsAtFirstExcellent ==
    SearchStarted =>
        /\ Ascending(header_sizes) /\ Ascending(possible_sizes)
        /\ Len(tested) <= Len(header_sizes) * Len(possible_sizes)
        /\ \A i \in 1..Len(tested) : tested[i] = Enumerated(i)
        /\ \A i \in 1..Len(tested) :
               AcceptedVeryClose(File, tested[i])
                   => /\ i = Len(tested)
                      /\ pc # "search"
                      /\ best_config[cur]
                             = <<tested[i][1], tested[i][2],
                                 (File.size - tested[i][1]) \div tested[i][2]>>
        /\ (pc # "search" /\ Len(tested) < Len(header_sizes) * Len(possible_sizes))
               => /\ tested # <<>>
                  /\ AcceptedVeryClose(File, tested[Len(tested)])

\* C16 witness: the search stopped in a later row of the enumeration, at a
\* very close candidate, after it had accepted another candidate
C16_Witness ==
    /\ Searched
    /\ Len(tested) > Len(possible_sizes)
    /\ Len(tested) < Len(header_sizes) * Len(possible_sizes)
    /\ AcceptedVeryClose(File, tested[Len(tested)])
    /\ \E i \in 1..(Len(tested) - 1) : Accepts(File, tested[i][1], tested[i][2])
====
